---- MODULE Spec2Model ----
(***************************************************************************)
(* Route-parameter inference of express-typed-router (schema-router       *)
(* variant, src/src/zod-router.ts lines 1681-1916).                        *)
(*                                                                         *)
(* The conditional types ExtractParams, ExtractOptionalSegment,            *)
(* ExtractOptionalParam, ExtractSingleParam, RemoveFirstParam,             *)
(* CountWildcards and IncrementWildcard are evaluated by the type checker  *)
(* on a string literal.  A string is a sequence of one-character strings.  *)
(* A template literal pattern `${infer A}d${infer B}` matches at the       *)
(* FIRST occurrence of the delimiter text d; with two delimiters the       *)
(* second is searched after the end of the first.  A mapped type           *)
(* { [K in Name]: T } is one contribution record; an intersection A & B    *)
(* is the concatenation of the contributions of A and of B.                *)
(*                                                                         *)
(* Four specifications share the module: Spec evaluates ExtractRouteParams *)
(* on one pattern, SpecCount applies the wildcard counter on its own,      *)
(* SpecRouter follows the runtime TypedRouter (factories, useMiddleware,   *)
(* route registration, getRouter, one dispatched request) and SpecValidate *)
(* follows one invocation of a validation middleware.                      *)
(***************************************************************************)
EXTENDS Integers, Sequences, FiniteSets, TLC

VARIABLES pattern, path, params, pc, prev, kind, pos, contrib, open, steps,
          cw, stack, returned, calls, ran, rpc, vm

\* the evaluation of ExtractRouteParams on one pattern
typeVars == <<pattern, path, params, pc, prev, kind, pos, contrib, open, steps>>
\* the evaluation of CountWildcards on one text
countVars == <<cw>>
\* one TypedRouter, the calls made on it and the request dispatched to it
routerVars == <<stack, returned, calls, ran, rpc>>
\* one invocation of a body- or query-validation middleware
validateVars == <<vm>>

vars == <<typeVars, countVars, routerVars, validateVars>>

(***************************************************************************)
(* Bounds of the checked pattern families.                                 *)
(***************************************************************************)
MaxLen == 3
MaxSegs == 4
MaxConstraint == 2
MaxStars == 11
MaxLayers == 3

(***************************************************************************)
(* Strings and template-literal matching.                                  *)
(***************************************************************************)
Chars == {"a", "b", ":", "/", "-", ".", "#", "?", "+", "*", "(", ")", "{", "}"}

StartsAt(s, d, p) ==
  /\ p >= 1
  /\ p + Len(d) - 1 <= Len(s)
  /\ SubSeq(s, p, p + Len(d) - 1) = d

\* position of the first occurrence of d in s at or after from; 0 if none
IndexOf(s, d, from) ==
  LET hits == {p \in from..(Len(s) - Len(d) + 1) : StartsAt(s, d, p)}
  IN  IF hits = {} THEN 0 ELSE CHOOSE p \in hits : \A q \in hits : p <= q

\* s extends `${infer Before}d${infer After}`
Has(s, d) == IndexOf(s, d, 1) > 0
Before(s, d) == SubSeq(s, 1, IndexOf(s, d, 1) - 1)
After(s, d) == SubSeq(s, IndexOf(s, d, 1) + Len(d), Len(s))

\* s extends `${infer A}d1${infer B}d2${infer C}`
Has2(s, d1, d2) ==
  /\ Has(s, d1)
  /\ IndexOf(s, d2, IndexOf(s, d1, 1) + Len(d1)) > 0
Mid2(s, d1, d2) ==
  SubSeq(s, IndexOf(s, d1, 1) + Len(d1),
            IndexOf(s, d2, IndexOf(s, d1, 1) + Len(d1)) - 1)
After2(s, d1, d2) ==
  SubSeq(s, IndexOf(s, d2, IndexOf(s, d1, 1) + Len(d1)) + Len(d2), Len(s))

\* s extends `${infer A}d` : the last literal text must be a suffix of s
EndsWith(s, d) ==
  /\ Len(s) >= Len(d)
  /\ SubSeq(s, Len(s) - Len(d) + 1, Len(s)) = d
DropEnd(s, d) == SubSeq(s, 1, Len(s) - Len(d))

(***************************************************************************)
(* Contributions: { [K in key]: string }, { [K in key]?: string },         *)
(* { [K in key]: string[] }, { [K in key]?: string[] }; {} is <<>>.        *)
(***************************************************************************)
Single(k) == <<[key |-> k, optional |-> FALSE, array |-> FALSE]>>
OptSingle(k) == <<[key |-> k, optional |-> TRUE, array |-> FALSE]>>
Multi(k) == <<[key |-> k, optional |-> FALSE, array |-> TRUE]>>
OptMulti(k) == <<[key |-> k, optional |-> TRUE, array |-> TRUE]>>
Empty == <<>>

(***************************************************************************)
(* IncrementWildcard, CountWildcards                                       *)
(***************************************************************************)
\* variant without the ceiling: past "9" the index stays where it is
IncrementWildcard_NoCeiling(T) ==
  IF T = <<"0">> THEN <<"1">>
  ELSE IF T = <<"1">> THEN <<"2">>
  ELSE IF T = <<"2">> THEN <<"3">>
  ELSE IF T = <<"3">> THEN <<"4">>
  ELSE IF T = <<"4">> THEN <<"5">>
  ELSE IF T = <<"5">> THEN <<"6">>
  ELSE IF T = <<"6">> THEN <<"7">>
  ELSE IF T = <<"7">> THEN <<"8">>
  ELSE IF T = <<"8">> THEN <<"9">>
  ELSE T

IncrementWildcard(T) ==
  IF T = <<"0">> THEN <<"1">>
  ELSE IF T = <<"1">> THEN <<"2">>
  ELSE IF T = <<"2">> THEN <<"3">>
  ELSE IF T = <<"3">> THEN <<"4">>
  ELSE IF T = <<"4">> THEN <<"5">>
  ELSE IF T = <<"5">> THEN <<"6">>
  ELSE IF T = <<"6">> THEN <<"7">>
  ELSE IF T = <<"7">> THEN <<"8">>
  ELSE IF T = <<"8">> THEN <<"9">>
  ELSE <<"1", "0">>

RECURSIVE CountWildcards(_, _)
CountWildcards(Path, Count) ==
  IF Has(Path, <<"*">>)
  THEN CountWildcards(After(Path, <<"*">>), IncrementWildcard(Count))
  ELSE Count

(***************************************************************************)
(* ExtractOptionalParam, ExtractOptionalSegment                            *)
(***************************************************************************)
\* variant that loses the optional marker of the mapped type
ExtractOptionalParam_Required(Rest) ==
  IF Has(Rest, <<"/">>) THEN Single(Before(Rest, <<"/">>))
  ELSE IF Has(Rest, <<"-">>) THEN Single(Before(Rest, <<"-">>))
  ELSE IF Has(Rest, <<".">>) THEN Single(Before(Rest, <<".">>))
  ELSE Single(Rest)

ExtractOptionalParam(Rest) ==
  IF Has(Rest, <<"/">>) THEN OptSingle(Before(Rest, <<"/">>))
  ELSE IF Has(Rest, <<"-">>) THEN OptSingle(Before(Rest, <<"-">>))
  ELSE IF Has(Rest, <<".">>) THEN OptSingle(Before(Rest, <<".">>))
  ELSE OptSingle(Rest)

\* variant that keys an anonymous wildcard in braces by a wildcard index
ExtractOptionalSegment_NumericKey(Content) ==
  IF StartsAt(Content, <<"*">>, 1)
  THEN IF Tail(Content) = <<>> THEN OptSingle(<<"0">>) ELSE OptMulti(Tail(Content))
  ELSE IF StartsAt(Content, <<"/">>, 1)
  THEN LET Rest == Tail(Content)
       IN  IF StartsAt(Rest, <<"*">>, 1)
           THEN IF Tail(Rest) = <<>> THEN OptSingle(<<"0">>) ELSE OptMulti(Tail(Rest))
           ELSE IF StartsAt(Rest, <<":">>, 1)
           THEN ExtractOptionalParam(Tail(Rest))
           ELSE Empty
  ELSE IF StartsAt(Content, <<"/", ":">>, 1)
  THEN ExtractOptionalParam(SubSeq(Content, 3, Len(Content)))
  ELSE IF StartsAt(Content, <<".", ":">>, 1)
  THEN ExtractOptionalParam(SubSeq(Content, 3, Len(Content)))
  ELSE IF Has(Content, <<":">>)
  THEN ExtractOptionalParam(After(Content, <<":">>))
  ELSE Empty

ExtractOptionalSegment(Content) ==
  IF StartsAt(Content, <<"*">>, 1)
  THEN IF Tail(Content) = <<>> THEN Empty ELSE OptMulti(Tail(Content))
  ELSE IF StartsAt(Content, <<"/">>, 1)
  THEN LET Rest == Tail(Content)
       IN  IF StartsAt(Rest, <<"*">>, 1)
           THEN IF Tail(Rest) = <<>> THEN Empty ELSE OptMulti(Tail(Rest))
           ELSE IF StartsAt(Rest, <<":">>, 1)
           THEN ExtractOptionalParam(Tail(Rest))
           ELSE Empty
  ELSE IF StartsAt(Content, <<"/", ":">>, 1)
  THEN ExtractOptionalParam(SubSeq(Content, 3, Len(Content)))
  ELSE IF StartsAt(Content, <<".", ":">>, 1)
  THEN ExtractOptionalParam(SubSeq(Content, 3, Len(Content)))
  ELSE IF Has(Content, <<":">>)
  THEN ExtractOptionalParam(After(Content, <<":">>))
  ELSE Empty

(***************************************************************************)
(* ExtractSingleParam: the ordered rule list applied to the text after     *)
(* the first `:`.                                                          *)
(***************************************************************************)
\* variant that tests the regex-constraint rule after the delimiter and
\* modifier rules
ExtractSingleParam_RegexLast(Rest) ==
  IF Has(Rest, <<"-", ":">>) THEN Single(Before(Rest, <<"-", ":">>))
  ELSE IF Has(Rest, <<".", ":">>) THEN Single(Before(Rest, <<".", ":">>))
  ELSE IF Has(Rest, <<"?", "/">>) THEN OptSingle(Before(Rest, <<"?", "/">>))
  ELSE IF Has(Rest, <<"?", "-">>) THEN OptSingle(Before(Rest, <<"?", "-">>))
  ELSE IF Has(Rest, <<"?", ".">>) THEN OptSingle(Before(Rest, <<"?", ".">>))
  ELSE IF Has(Rest, <<"?", "#">>) THEN OptSingle(Before(Rest, <<"?", "#">>))
  ELSE IF Has(Rest, <<"?", ":">>) THEN OptSingle(Before(Rest, <<"?", ":">>))
  ELSE IF Has(Rest, <<"/">>) THEN Single(Before(Rest, <<"/">>))
  ELSE IF Has(Rest, <<"-">>) THEN Single(Before(Rest, <<"-">>))
  ELSE IF Has(Rest, <<".">>) THEN Single(Before(Rest, <<".">>))
  ELSE IF Has(Rest, <<"#">>) THEN Single(Before(Rest, <<"#">>))
  ELSE IF Has(Rest, <<":">>) THEN Single(Before(Rest, <<":">>))
  ELSE IF Has(Rest, <<"+">>) THEN Multi(Before(Rest, <<"+">>))
  ELSE IF Has(Rest, <<"*">>) THEN OptMulti(Before(Rest, <<"*">>))
  ELSE IF Has(Rest, <<"?">>) THEN OptSingle(Before(Rest, <<"?">>))
  ELSE IF Has2(Rest, <<"(">>, <<")">>) THEN Single(Before(Rest, <<"(">>))
  ELSE IF Rest = <<>> THEN Empty
  ELSE IF EndsWith(Rest, <<"?">>) THEN OptSingle(DropEnd(Rest, <<"?">>))
  ELSE IF EndsWith(Rest, <<"+">>) THEN Multi(DropEnd(Rest, <<"+">>))
  ELSE IF EndsWith(Rest, <<"*">>) THEN OptMulti(DropEnd(Rest, <<"*">>))
  ELSE Single(Rest)

\* variant without the test for the empty text
ExtractSingleParam_NoEmptyCase(Rest) ==
  IF Has2(Rest, <<"(">>, <<")">>) THEN Single(Before(Rest, <<"(">>))
  ELSE IF Has(Rest, <<"-", ":">>) THEN Single(Before(Rest, <<"-", ":">>))
  ELSE IF Has(Rest, <<".", ":">>) THEN Single(Before(Rest, <<".", ":">>))
  ELSE IF Has(Rest, <<"?", "/">>) THEN OptSingle(Before(Rest, <<"?", "/">>))
  ELSE IF Has(Rest, <<"?", "-">>) THEN OptSingle(Before(Rest, <<"?", "-">>))
  ELSE IF Has(Rest, <<"?", ".">>) THEN OptSingle(Before(Rest, <<"?", ".">>))
  ELSE IF Has(Rest, <<"?", "#">>) THEN OptSingle(Before(Rest, <<"?", "#">>))
  ELSE IF Has(Rest, <<"?", ":">>) THEN OptSingle(Before(Rest, <<"?", ":">>))
  ELSE IF Has(Rest, <<"/">>) THEN Single(Before(Rest, <<"/">>))
  ELSE IF Has(Rest, <<"-">>) THEN Single(Before(Rest, <<"-">>))
  ELSE IF Has(Rest, <<".">>) THEN Single(Before(Rest, <<".">>))
  ELSE IF Has(Rest, <<"#">>) THEN Single(Before(Rest, <<"#">>))
  ELSE IF Has(Rest, <<":">>) THEN Single(Before(Rest, <<":">>))
  ELSE IF Has(Rest, <<"+">>) THEN Multi(Before(Rest, <<"+">>))
  ELSE IF Has(Rest, <<"*">>) THEN OptMulti(Before(Rest, <<"*">>))
  ELSE IF Has(Rest, <<"?">>) THEN OptSingle(Before(Rest, <<"?">>))
  ELSE IF EndsWith(Rest, <<"?">>) THEN OptSingle(DropEnd(Rest, <<"?">>))
  ELSE IF EndsWith(Rest, <<"+">>) THEN Multi(DropEnd(Rest, <<"+">>))
  ELSE IF EndsWith(Rest, <<"*">>) THEN OptMulti(DropEnd(Rest, <<"*">>))
  ELSE Single(Rest)

ExtractSingleParam(Rest) ==
  IF Has2(Rest, <<"(">>, <<")">>) THEN Single(Before(Rest, <<"(">>))
  ELSE IF Has(Rest, <<"-", ":">>) THEN Single(Before(Rest, <<"-", ":">>))
  ELSE IF Has(Rest, <<".", ":">>) THEN Single(Before(Rest, <<".", ":">>))
  ELSE IF Has(Rest, <<"?", "/">>) THEN OptSingle(Before(Rest, <<"?", "/">>))
  ELSE IF Has(Rest, <<"?", "-">>) THEN OptSingle(Before(Rest, <<"?", "-">>))
  ELSE IF Has(Rest, <<"?", ".">>) THEN OptSingle(Before(Rest, <<"?", ".">>))
  ELSE IF Has(Rest, <<"?", "#">>) THEN OptSingle(Before(Rest, <<"?", "#">>))
  ELSE IF Has(Rest, <<"?", ":">>) THEN OptSingle(Before(Rest, <<"?", ":">>))
  ELSE IF Has(Rest, <<"/">>) THEN Single(Before(Rest, <<"/">>))
  ELSE IF Has(Rest, <<"-">>) THEN Single(Before(Rest, <<"-">>))
  ELSE IF Has(Rest, <<".">>) THEN Single(Before(Rest, <<".">>))
  ELSE IF Has(Rest, <<"#">>) THEN Single(Before(Rest, <<"#">>))
  ELSE IF Has(Rest, <<":">>) THEN Single(Before(Rest, <<":">>))
  ELSE IF Has(Rest, <<"+">>) THEN Multi(Before(Rest, <<"+">>))
  ELSE IF Has(Rest, <<"*">>) THEN OptMulti(Before(Rest, <<"*">>))
  ELSE IF Has(Rest, <<"?">>) THEN OptSingle(Before(Rest, <<"?">>))
  ELSE IF Rest = <<>> THEN Empty
  ELSE IF EndsWith(Rest, <<"?">>) THEN OptSingle(DropEnd(Rest, <<"?">>))
  ELSE IF EndsWith(Rest, <<"+">>) THEN Multi(DropEnd(Rest, <<"+">>))
  ELSE IF EndsWith(Rest, <<"*">>) THEN OptMulti(DropEnd(Rest, <<"*">>))
  ELSE Single(Rest)

(***************************************************************************)
(* RemoveFirstParam: the remaining pattern after the first parameter.      *)
(***************************************************************************)
\* variant that tests the regular separators before the optional-parameter
\* rules, out of step with ExtractSingleParam
RemoveFirstParam_SeparatorsFirst(Path) ==
  IF Has(Path, <<":">>)
  THEN LET B == Before(Path, <<":">>)
           Rest == After(Path, <<":">>)
       IN  IF Has2(Rest, <<"(">>, <<")">>) THEN B \o After2(Rest, <<"(">>, <<")">>)
           ELSE IF Has(Rest, <<"-", ":">>) THEN B \o <<"-", ":">> \o After(Rest, <<"-", ":">>)
           ELSE IF Has(Rest, <<".", ":">>) THEN B \o <<".", ":">> \o After(Rest, <<".", ":">>)
           ELSE IF Has(Rest, <<"/">>) THEN B \o <<"/">> \o After(Rest, <<"/">>)
           ELSE IF Has(Rest, <<"-">>) THEN B \o After(Rest, <<"-">>)
           ELSE IF Has(Rest, <<".">>) THEN B \o After(Rest, <<".">>)
           ELSE IF Has(Rest, <<"#">>) THEN B \o After(Rest, <<"#">>)
           ELSE IF Has(Rest, <<":">>) THEN B \o <<":">> \o After(Rest, <<":">>)
           ELSE IF Has(Rest, <<"?", "/">>) THEN B \o <<"/">> \o After(Rest, <<"?", "/">>)
           ELSE IF Has(Rest, <<"?", "-">>) THEN B \o After(Rest, <<"?", "-">>)
           ELSE IF Has(Rest, <<"?", ".">>) THEN B \o After(Rest, <<"?", ".">>)
           ELSE IF Has(Rest, <<"?", "#">>) THEN B \o After(Rest, <<"?", "#">>)
           ELSE IF Has(Rest, <<"?", ":">>) THEN B \o <<":">> \o After(Rest, <<"?", ":">>)
           ELSE IF Has(Rest, <<"+">>) THEN B \o After(Rest, <<"+">>)
           ELSE IF Has(Rest, <<"*">>) THEN B \o After(Rest, <<"*">>)
           ELSE IF Has(Rest, <<"?">>) THEN B \o After(Rest, <<"?">>)
           ELSE B
  ELSE Path

RemoveFirstParam(Path) ==
  IF Has(Path, <<":">>)
  THEN LET B == Before(Path, <<":">>)
           Rest == After(Path, <<":">>)
       IN  IF Has2(Rest, <<"(">>, <<")">>) THEN B \o After2(Rest, <<"(">>, <<")">>)
           ELSE IF Has(Rest, <<"-", ":">>) THEN B \o <<"-", ":">> \o After(Rest, <<"-", ":">>)
           ELSE IF Has(Rest, <<".", ":">>) THEN B \o <<".", ":">> \o After(Rest, <<".", ":">>)
           ELSE IF Has(Rest, <<"?", "/">>) THEN B \o <<"/">> \o After(Rest, <<"?", "/">>)
           ELSE IF Has(Rest, <<"?", "-">>) THEN B \o After(Rest, <<"?", "-">>)
           ELSE IF Has(Rest, <<"?", ".">>) THEN B \o After(Rest, <<"?", ".">>)
           ELSE IF Has(Rest, <<"?", "#">>) THEN B \o After(Rest, <<"?", "#">>)
           ELSE IF Has(Rest, <<"?", ":">>) THEN B \o <<":">> \o After(Rest, <<"?", ":">>)
           ELSE IF Has(Rest, <<"/">>) THEN B \o <<"/">> \o After(Rest, <<"/">>)
           ELSE IF Has(Rest, <<"-">>) THEN B \o After(Rest, <<"-">>)
           ELSE IF Has(Rest, <<".">>) THEN B \o After(Rest, <<".">>)
           ELSE IF Has(Rest, <<"#">>) THEN B \o After(Rest, <<"#">>)
           ELSE IF Has(Rest, <<":">>) THEN B \o <<":">> \o After(Rest, <<":">>)
           ELSE IF Has(Rest, <<"+">>) THEN B \o After(Rest, <<"+">>)
           ELSE IF Has(Rest, <<"*">>) THEN B \o After(Rest, <<"*">>)
           ELSE IF Has(Rest, <<"?">>) THEN B \o After(Rest, <<"?">>)
           ELSE B
  ELSE Path

(***************************************************************************)
(* ExtractRouteParams: the open mapping Record<string, string> for the     *)
(* general string type, ExtractParams for a literal.                       *)
(***************************************************************************)
GenericString == <<"string">>

\* variant without the `string extends Path` test
ExtractRouteParams_NoStringTest ==
  /\ pc = "start"
  /\ pc' = "scan"
  /\ UNCHANGED <<pattern, path, params, prev, kind, pos, contrib, open, steps,
                 countVars, routerVars, validateVars>>

ExtractRouteParams ==
  /\ pc = "start"
  /\ IF pattern = GenericString
     THEN pc' = "done" /\ open' = TRUE
     ELSE pc' = "scan" /\ open' = FALSE
  /\ UNCHANGED <<pattern, path, params, prev, kind, pos, contrib, steps,
                 countVars, routerVars, validateVars>>

(***************************************************************************)
(* ExtractParams, one action per branch of the conditional type.  The      *)
(* state is the remaining text (path) and the intersection built so far    *)
(* (params); prev, kind, pos and contrib record the text the last step was *)
(* applied to, the branch it took, where the text inferred as Before ends  *)
(* (the position of the marker matched) and what the step contributed.     *)
(***************************************************************************)
HasBrace(Path) == Has2(Path, <<"{">>, <<"}">>)

\* `${infer _Before}*${infer Name}d${infer After}` tried for d = / - . # :
\* in this order, then `${infer _Before}*${infer Name}`
WildcardDelim(R) ==
  IF Has(R, <<"/">>) THEN <<"/">>
  ELSE IF Has(R, <<"-">>) THEN <<"-">>
  ELSE IF Has(R, <<".">>) THEN <<".">>
  ELSE IF Has(R, <<"#">>) THEN <<"#">>
  ELSE IF Has(R, <<":">>) THEN <<":">>
  ELSE <<>>
WildcardName(R) ==
  IF WildcardDelim(R) = <<>> THEN R ELSE Before(R, WildcardDelim(R))

\* variant that recurses on the text from the wildcard on
WildcardRest_KeepsStar(R) == <<"*">> \o R

WildcardRest(R) ==
  IF WildcardDelim(R) = <<>> THEN <<>>
  ELSE WildcardDelim(R) \o After(R, WildcardDelim(R))
WildcardContribution(Path) ==
  LET Name == WildcardName(After(Path, <<"*">>))
  IN  IF Name = <<>>
      THEN Single(CountWildcards(Before(Path, <<"*">>), <<"0">>))
      ELSE Multi(Name)

ExtractParamsBrace ==
  /\ pc = "scan"
  /\ HasBrace(path)
  /\ contrib' = ExtractOptionalSegment(Mid2(path, <<"{">>, <<"}">>))
  /\ params' = params \o contrib'
  /\ path' = Before(path, <<"{">>) \o After2(path, <<"{">>, <<"}">>)
  /\ prev' = path
  /\ kind' = "brace"
  /\ pos' = Len(Before(path, <<"{">>)) + 1
  /\ steps' = steps + 1
  /\ UNCHANGED <<pattern, pc, open, countVars, routerVars, validateVars>>

\* variant that tests the named-parameter branch without the brace branch
\* having failed first
ExtractParamsNamed_BeforeBrace ==
  /\ pc = "scan"
  /\ Has(path, <<":">>)
  /\ contrib' = ExtractSingleParam(After(path, <<":">>))
  /\ params' = params \o contrib'
  /\ path' = RemoveFirstParam(path)
  /\ prev' = path
  /\ kind' = "named"
  /\ pos' = Len(Before(path, <<":">>)) + 1
  /\ steps' = steps + 1
  /\ UNCHANGED <<pattern, pc, open, countVars, routerVars, validateVars>>

ExtractParamsNamed ==
  /\ pc = "scan"
  /\ ~HasBrace(path)
  /\ Has(path, <<":">>)
  /\ contrib' = ExtractSingleParam(After(path, <<":">>))
  /\ params' = params \o contrib'
  /\ path' = RemoveFirstParam(path)
  /\ prev' = path
  /\ kind' = "named"
  /\ pos' = Len(Before(path, <<":">>)) + 1
  /\ steps' = steps + 1
  /\ UNCHANGED <<pattern, pc, open, countVars, routerVars, validateVars>>

ExtractParamsWildcard ==
  /\ pc = "scan"
  /\ ~HasBrace(path)
  /\ ~Has(path, <<":">>)
  /\ Has(path, <<"*">>)
  /\ contrib' = WildcardContribution(path)
  /\ params' = params \o contrib'
  /\ path' = WildcardRest(After(path, <<"*">>))
  /\ prev' = path
  /\ kind' = "wildcard"
  /\ pos' = Len(Before(path, <<"*">>)) + 1
  /\ steps' = steps + 1
  /\ UNCHANGED <<pattern, pc, open, countVars, routerVars, validateVars>>

\* variant whose last branch maps the remaining text instead of giving {}
ExtractParamsNone_KeepsPath ==
  /\ pc = "scan"
  /\ ~HasBrace(path)
  /\ ~Has(path, <<":">>)
  /\ ~Has(path, <<"*">>)
  /\ pc' = "done"
  /\ prev' = path
  /\ kind' = "none"
  /\ pos' = 0
  /\ contrib' = Single(path)
  /\ params' = params \o contrib'
  /\ UNCHANGED <<pattern, path, open, steps, countVars, routerVars, validateVars>>

ExtractParamsNone ==
  /\ pc = "scan"
  /\ ~HasBrace(path)
  /\ ~Has(path, <<":">>)
  /\ ~Has(path, <<"*">>)
  /\ pc' = "done"
  /\ prev' = path
  /\ kind' = "none"
  /\ pos' = 0
  /\ contrib' = Empty
  /\ UNCHANGED <<pattern, path, params, open, steps, countVars, routerVars, validateVars>>

(***************************************************************************)
(* The literal patterns the type is applied to.                            *)
(***************************************************************************)
StringsUpTo(S, n) == UNION {[1..k -> S] : k \in 0..n}

RECURSIVE Concat(_)
Concat(ss) == IF ss = <<>> THEN <<>> ELSE Head(ss) \o Concat(Tail(ss))

\* every string over the marker, modifier and delimiter characters
AllPatterns == StringsUpTo(Chars, MaxLen)

\* pieces of the documented grammar, with one-letter names
Tokens ==
  { <<"/", "a">>, <<"/", ":", "x">>, <<"-", ":", "z">>, <<".", ":", "w">>,
    <<"?">>, <<"*">>, <<"/", "*">>,
    <<"{", "/", ":", "v", "}">>, <<"{", "/", "a", "/", ":", "p", "}">> }
GrammarPatterns == {Concat(ts) : ts \in StringsUpTo(Tokens, MaxSegs)}

\* /:x(constraint)after
ConstraintChars == {"a", "+", "*", "?", "/", "-", ".", ":"}
Afters == {<<>>, <<"/", "a">>, <<"/", ":", "y">>, <<"-", ":", "z">>, <<"?">>, <<"+">>}
ConstrainedPatterns ==
  { <<"/", ":", "x", "(">> \o c \o <<")">> \o t :
      c \in StringsUpTo(ConstraintChars, MaxConstraint), t \in Afters }

\* before{content}after for every short content of a brace segment
BraceChars == {"*", "/", ":", "a"}
BracedPatterns ==
  { b \o <<"{">> \o c \o <<"}">> \o t :
      b \in {<<>>, <<"/", "a">>},
      c \in StringsUpTo(BraceChars, MaxLen),
      t \in {<<>>, <<"/", "a">>} }

\* *name with delimiters after it, without braces and without a colon
WildcardChars == {"a", "/", "-", "."}
WildcardPatterns ==
  { <<"*">> \o n : n \in StringsUpTo(WildcardChars, MaxLen) }

Patterns ==
  AllPatterns \cup GrammarPatterns \cup ConstrainedPatterns \cup BracedPatterns
    \cup WildcardPatterns

\* nothing is being counted; no router has been asked for
CountIdle == cw = [fn |-> "none", input |-> <<>>, start |-> <<>>,
                   result |-> <<>>, pc |-> "idle"]
NoRun == [method |-> "none", path |-> "none", failing |-> "none",
          trace |-> <<>>]

\* a JavaScript value: the properties it has and what it carries
JsObject(has, payload) == [has |-> has, payload |-> payload]
Plain(p) == JsObject({}, p)
Raw == Plain("raw")
Undefined == Plain("undefined")

NoInvocation ==
  [which |-> "none", shape |-> "none", outcome |-> "none", async |-> FALSE,
   pc |-> "idle", result |-> Undefined, thenable |-> FALSE,
   rejected |-> FALSE, error |-> "none", body |-> Raw, query |-> Raw,
   queryWritable |-> TRUE, status |-> 0, sent |-> "none", nexts |-> <<>>]

ValidateIdle == vm = NoInvocation

RouterIdle ==
  /\ stack = <<>>
  /\ returned = 0
  /\ calls = <<>>
  /\ ran = NoRun
  /\ rpc = "idle"

Init ==
  /\ pattern \in Patterns \cup {GenericString}
  /\ path = pattern
  /\ params = <<>>
  /\ pc = "start"
  /\ prev = <<>>
  /\ kind = "init"
  /\ pos = 0
  /\ contrib = <<>>
  /\ open = FALSE
  /\ steps = 0
  /\ CountIdle
  /\ RouterIdle
  /\ ValidateIdle

Next ==
  \/ ExtractRouteParams
  \/ ExtractParamsBrace
  \/ ExtractParamsNamed
  \/ ExtractParamsWildcard
  \/ ExtractParamsNone

Spec == Init /\ [][Next]_vars

TypeOK ==
  /\ pc \in {"start", "scan", "done"}
  /\ open \in BOOLEAN
  /\ steps \in 0..Len(pattern)
  /\ kind \in {"init", "brace", "named", "wildcard", "none"}
  /\ Len(path) <= Len(pattern)
  /\ pos \in 0..Len(pattern)

(***************************************************************************)
(* Vocabulary of the properties.                                           *)
(***************************************************************************)
Letters == {"a", "b", "x", "y", "z", "w", "v", "p"}
NameLetters == {"x", "y", "z", "w", "v", "p"}
Delimiters == {"/", "-", ".", "#", ":"}
Special == {":", "/", "-", ".", "#", "?", "+", "*", "(", ")", "{", "}"}
Digits == <<"0", "1", "2", "3", "4", "5", "6", "7", "8", "9">>
Numeral(n) == IF n < 10 THEN <<Digits[n + 1]>> ELSE <<"1", "0">>
NumericKeys == {Numeral(n) : n \in 0..10}

Range(s) == {s[i] : i \in DOMAIN s}
Keys(ps) == {ps[i].key : i \in DOMAIN ps}
Occurrences(s, ch) == Cardinality({i \in DOMAIN s : s[i] = ch})
KeyCount(ps, k) == Cardinality({i \in DOMAIN ps : ps[i].key = k})

\* the identifier a text begins with, and what follows it
NameLen(R) ==
  CHOOSE n \in 0..Len(R) :
    /\ \A j \in 1..n : R[j] \in Letters
    /\ n = Len(R) \/ R[n + 1] \notin Letters
LeadingName(R) == SubSeq(R, 1, NameLen(R))
AfterName(R) == SubSeq(R, NameLen(R) + 1, Len(R))

\* the text after the sigil of the step just taken
SigilRest == After(prev, <<":">>)

(***************************************************************************)
(* C1: a brace-free pattern with k >= 1 anonymous wildcards gives the      *)
(* wildcards the keys "0", "1", ..., k-1 from left to right, one distinct  *)
(* key per wildcard, each a required single string.                        *)
(***************************************************************************)
AnonymousWildcards(P) ==
  /\ Range(P) \subseteq {"/", "a", "b", "*"}
  /\ Occurrences(P, "*") \in 1..10
  /\ \A i \in DOMAIN P : P[i] = "*" => (i = Len(P) \/ P[i + 1] = "/")

C1_WildcardKeysIncrease ==
  (pc = "done" /\ AnonymousWildcards(pattern)) =>
    /\ Len(params) = Occurrences(pattern, "*")
    /\ \A i \in DOMAIN params : params[i] = Single(Numeral(i - 1))[1]

(***************************************************************************)
(* C2: for a pattern of the documented grammar with pairwise distinct      *)
(* parameter names, the non-numeric keys of the inferred map are exactly   *)
(* the names written in the pattern, each contributed exactly once.        *)
(***************************************************************************)
ParamTokens == {<<"/", ":", "x">>}
GluedTokens == {<<"-", ":", "z">>, <<".", ":", "w">>}
ModifierTokens == {<<"?">>, <<"*">>}
BraceTokens == {<<"{", "/", ":", "v", "}">>, <<"{", "/", "a", "/", ":", "p", "}">>}

Documented(ts) ==
  /\ \A i \in DOMAIN ts :
       /\ ts[i] \in ModifierTokens =>
            i > 1 /\ ts[i - 1] \in ParamTokens \cup GluedTokens
       /\ ts[i] \in GluedTokens => i > 1 /\ ts[i - 1] \in ParamTokens \cup GluedTokens
  /\ \A i, j \in DOMAIN ts :
       (i # j /\ ts[i] \in ParamTokens \cup GluedTokens \cup BraceTokens) => ts[i] # ts[j]
DocumentedPatterns ==
  {Concat(ts) : ts \in {t \in StringsUpTo(Tokens, MaxSegs) : Documented(t)}}

NamesWritten(P) == {<<ch>> : ch \in Range(P) \cap NameLetters}

C2_EveryNameOnce ==
  (pc = "done" /\ pattern \in DocumentedPatterns) =>
    /\ Keys(params) \ NumericKeys = NamesWritten(pattern)
    /\ \A k \in NamesWritten(pattern) : KeyCount(params, k) = 1

(***************************************************************************)
(* C3: when the text after the sigil is name+ or name*, at the end of the  *)
(* pattern or immediately followed by a delimiter, the step contributes    *)
(* { name: string[] } for + and { name?: string[] } for *.                 *)
(***************************************************************************)
Repeating(R) ==
  /\ LeadingName(R) # <<>>
  /\ AfterName(R) # <<>>
  /\ AfterName(R)[1] \in {"+", "*"}
  /\ Len(AfterName(R)) = 1 \/ AfterName(R)[2] \in Delimiters

C3_RepeatingParam ==
  (kind = "named" /\ Repeating(SigilRest)) =>
    contrib = IF AfterName(SigilRest)[1] = "+"
              THEN Multi(LeadingName(SigilRest))
              ELSE OptMulti(LeadingName(SigilRest))

(***************************************************************************)
(* C4: when the text after the sigil is name(constraint)..., the step      *)
(* contributes exactly { name: string }: the key stops at the opening      *)
(* parenthesis and the parameter is neither optional nor repeating; for    *)
(* /:x(constraint)after with the constraint text between the parentheses   *)
(* drawn from a + * ? / - . : no character of the constraint is in a key.  *)
(***************************************************************************)
Constrained(R) ==
  /\ LeadingName(R) # <<>>
  /\ AfterName(R) # <<>>
  /\ AfterName(R)[1] = "("
  /\ \E j \in 2..Len(AfterName(R)) : AfterName(R)[j] = ")"

C4_RegexConstraint ==
  /\ (kind = "named" /\ Constrained(SigilRest)) =>
       contrib = Single(LeadingName(SigilRest))
  /\ (pc = "done" /\ pattern \in ConstrainedPatterns) =>
       /\ params[1] = Single(<<"x">>)[1]
       /\ \A k \in Keys(params) : Range(k) \subseteq NameLetters

W_C4_RegexConstraint ==
  /\ pc = "done"
  /\ pattern = <<"/", ":", "x", "(", "?", ":", ")", "/", ":", "y">>
  /\ params = Single(<<"x">>) \o Single(<<"y">>)

(***************************************************************************)
(* C5: when the text after the sigil is name-:next... or name.:next...,    *)
(* the step contributes { name: string } with the key ending at the        *)
(* separator, and the remaining text keeps the separator and :next....     *)
(***************************************************************************)
Glued(R) ==
  /\ LeadingName(R) # <<>>
  /\ Len(AfterName(R)) >= 2
  /\ AfterName(R)[1] \in {"-", "."}
  /\ AfterName(R)[2] = ":"

C5_ConsecutiveParams ==
  (kind = "named" /\ Glued(SigilRest)) =>
    /\ contrib = Single(LeadingName(SigilRest))
    /\ path = Before(prev, <<":">>) \o AfterName(SigilRest)

(***************************************************************************)
(* C6: a parameter written :name? whose ? is followed by one of / - . # :  *)
(* or ends the pattern is in the inferred map as { name?: string }.        *)
(***************************************************************************)
OptionalAt(P, i) ==
  LET R == SubSeq(P, i + 1, Len(P))
  IN  /\ P[i] = ":"
      /\ LeadingName(R) # <<>>
      /\ AfterName(R) # <<>>
      /\ AfterName(R)[1] = "?"
      /\ Len(AfterName(R)) = 1 \/ AfterName(R)[2] \in Delimiters

C6_OptionalParam ==
  (pc = "done" /\ Range(pattern) \cap {"{", "}", "(", ")"} = {}) =>
    \A i \in DOMAIN pattern :
      OptionalAt(pattern, i) =>
        \E j \in DOMAIN params :
          params[j] = OptSingle(LeadingName(SubSeq(pattern, i + 1, Len(pattern))))[1]

(***************************************************************************)
(* C7: for a pattern with a brace segment {content}, the brace step        *)
(* contributes ExtractOptionalSegment(content) and continues with the      *)
(* pattern with the whole segment, braces included, removed; every key     *)
(* the segment contributes is optional whatever the content holds.         *)
(***************************************************************************)
Leftmost(s, ch, from) ==
  CHOOSE i \in from..Len(s) :
    s[i] = ch /\ \A j \in from..(i - 1) : s[j] # ch
BraceOpen(s) == Leftmost(s, "{", 1)
BraceClose(s) == Leftmost(s, "}", BraceOpen(s) + 1)
BraceContent(s) == SubSeq(s, BraceOpen(s) + 1, BraceClose(s) - 1)

VersionUsers == <<"/", "a", "{", "/", ":", "v", "}", "/", "a">>
VersionFileExt ==
  <<"/", "a", "{", "/", ":", "v", "}", "/", ":", "x", ".", ":", "w">>

C7_BraceSegment ==
  /\ kind = "brace" =>
       /\ contrib = ExtractOptionalSegment(BraceContent(prev))
       /\ path = SubSeq(prev, 1, BraceOpen(prev) - 1)
                   \o SubSeq(prev, BraceClose(prev) + 1, Len(prev))
       /\ \A i \in DOMAIN contrib : contrib[i].optional
  /\ (pc = "done" /\ pattern = VersionUsers) => params = OptSingle(<<"v">>)
  /\ (pc = "done" /\ pattern = VersionFileExt) =>
       params = OptSingle(<<"v">>) \o Single(<<"x">>) \o Single(<<"w">>)

W_C7_BraceSegment ==
  /\ pc = "done"
  /\ pattern = VersionFileExt
  /\ params = OptSingle(<<"v">>) \o Single(<<"x">>) \o Single(<<"w">>)

(***************************************************************************)
(* C8: brace content made of literal text followed by a named parameter,   *)
(* such as {/optional/:param}, contributes { param?: string }.             *)
(***************************************************************************)
LiteralThenParam(c) ==
  /\ Has(c, <<":">>)
  /\ Range(Before(c, <<":">>)) \subseteq {"/", "a", "b", "-", "."}
  /\ After(c, <<":">>) # <<>>
  /\ Range(After(c, <<":">>)) \subseteq Letters

C8_LiteralThenParam ==
  (kind = "brace" /\ LiteralThenParam(BraceContent(prev))) =>
    contrib = OptSingle(After(BraceContent(prev), <<":">>))

(***************************************************************************)
(* C9 as stated: at every step the construct processed is the one whose    *)
(* marker (the { of a brace segment, a colon or a star) is leftmost in     *)
(* the remaining text.                                                     *)
(***************************************************************************)
Markers(s) ==
  {i \in DOMAIN s : s[i] \in {":", "*"}}
    \cup (IF HasBrace(s) THEN {BraceOpen(s)} ELSE {})
Min(S) == CHOOSE m \in S : \A n \in S : m <= n

C10_KeysAreIdentifiers ==
  (pc = "done" /\ pattern \in DocumentedPatterns) =>
    \A k \in Keys(params) : k \in NumericKeys \/ Range(k) \cap Special = {}

(***************************************************************************)
(* C11: applied to the general string type ExtractRouteParams yields the   *)
(* open string-to-string mapping without running any classification rule;  *)
(* applied to a literal it never yields the open mapping.                  *)
(***************************************************************************)
C11_GenericString ==
  /\ (pc = "done" /\ pattern = GenericString) =>
       open /\ params = <<>> /\ steps = 0 /\ kind = "init"
  /\ (pc # "start" /\ pattern # GenericString) => ~open

W_C11_GenericString == pc = "done" /\ pattern = GenericString /\ open

(***************************************************************************)
(* C12: a literal pattern with none of the markers (a brace segment, a     *)
(* colon, a star) yields the empty mapping; a non-empty map needs a        *)
(* marker in the pattern.                                                  *)
(***************************************************************************)
NoMarkers(P) ==
  /\ ":" \notin Range(P)
  /\ "*" \notin Range(P)
  /\ ~ \E i, j \in DOMAIN P : i < j /\ P[i] = "{" /\ P[j] = "}"

C12_NoMarkersEmptyMap ==
  (pattern # GenericString) =>
    /\ (pc = "done" /\ NoMarkers(pattern)) => params = <<>> /\ steps = 0
    /\ params # <<>> => ~NoMarkers(pattern)

W_C12_NoMarkersEmptyMap ==
  pc = "done" /\ pattern = <<"/", "a">> /\ params = <<>> /\ ~open

(***************************************************************************)
(* C13: ExtractSingleParam is total: for every text after a sigil it       *)
(* yields a mapping with at most one key, whose key is part of that text,  *)
(* and the empty text yields the empty mapping.                            *)
(***************************************************************************)
C13_SingleParamTotal ==
  kind = "named" =>
    /\ Len(contrib) <= 1
    /\ SigilRest = <<>> => contrib = Empty
    /\ \A i \in DOMAIN contrib :
         /\ contrib[i].optional \in BOOLEAN
         /\ contrib[i].array \in BOOLEAN
         /\ Len(contrib[i].key) <= Len(SigilRest)

W_C13_SingleParamTotal ==
  kind = "named" /\ SigilRest = <<>> /\ contrib = Empty /\ path = Before(prev, <<":">>)

(***************************************************************************)
(* C14: ExtractSingleParam and RemoveFirstParam agree on where the first   *)
(* parameter ends: the key is the text right after the sigil, and          *)
(* RemoveFirstParam resumes after the key, dropping besides the key only   *)
(* the modifier or separator of the rule (at most two characters) or the   *)
(* parenthesised constraint.                                               *)
(***************************************************************************)
C14_SameRule ==
  (kind = "named" /\ contrib # <<>>) =>
    LET k == contrib[1].key
        R == SigilRest
    IN  /\ Len(k) <= Len(R)
        /\ SubSeq(R, 1, Len(k)) = k
        /\ \E n \in Len(k)..Len(R) :
             /\ path = Before(prev, <<":">>) \o SubSeq(R, n + 1, Len(R))
             /\ n <= Len(k) + 2 \/ R[Len(k) + 1] = "("

W_C14_SameRule ==
  /\ kind = "named"
  /\ SigilRest = <<"x", "/", "a", "?", "/", "a">>
  /\ contrib = OptSingle(<<"x", "/", "a">>)
  /\ path = <<"/", "/", "a">>

(***************************************************************************)
(* C15: every recursive step of ExtractParams is applied to a strictly     *)
(* shorter text, so the number of steps is at most the pattern's length.   *)
(***************************************************************************)
C15_Terminates ==
  /\ kind \in {"brace", "named", "wildcard"} => Len(path) < Len(prev)
  /\ steps + Len(path) <= Len(pattern)

W_C15_Terminates == pc = "done" /\ steps >= 3 /\ Len(path) < Len(pattern)

(***************************************************************************)
(* C16: RemoveFirstParam applied to a text with n >= 1 sigils returns a    *)
(* text with exactly n - 1 sigils; stated for the documented patterns,     *)
(* where every colon is a sigil.                                           *)
(***************************************************************************)
C16_OneSigilRemoved ==
  (kind = "named" /\ pattern \in DocumentedPatterns) =>
    Occurrences(path, ":") = Occurrences(prev, ":") - 1

(***************************************************************************)
(* C18: for brace content that is a wildcard, ExtractOptionalSegment       *)
(* contributes { name?: string[] } when the wildcard is named and the      *)
(* empty mapping when it is anonymous; an anonymous wildcard inside braces *)
(* never produces a numeric key in the final map.                          *)
(***************************************************************************)
AnonymousContent == {<<"*">>, <<"/", "*">>}

WildcardContentName(c) ==
  IF StartsAt(c, <<"/", "*">>, 1) THEN SubSeq(c, 3, Len(c))
  ELSE IF StartsAt(c, <<"*">>, 1) THEN SubSeq(c, 2, Len(c))
  ELSE <<>>

NamedContent(c) ==
  /\ WildcardContentName(c) # <<>>
  /\ Range(WildcardContentName(c)) \subseteq Letters

C18_BraceWildcard ==
  /\ (kind = "brace" /\ BraceContent(prev) \in AnonymousContent) =>
       contrib = Empty
  /\ (kind = "brace" /\ NamedContent(BraceContent(prev))) =>
       contrib = OptMulti(WildcardContentName(BraceContent(prev)))
  /\ ( /\ pc = "done"
       /\ HasBrace(pattern)
       /\ BraceContent(pattern) \in AnonymousContent
       /\ Occurrences(pattern, "*") = 1 ) =>
       Keys(params) \cap NumericKeys = {}

W_C18_BraceWildcard ==
  /\ pc = "done"
  /\ pattern = <<"/", "a", "{", "/", "*", "}">>
  /\ params = <<>>

(***************************************************************************)
(* The wildcard counter on its own: CountWildcards and IncrementWildcard   *)
(* applied to inputs drawn from bounded sets.                              *)
(***************************************************************************)
TypeIdle ==
  /\ pattern = <<>>
  /\ path = <<>>
  /\ params = <<>>
  /\ pc = "idle"
  /\ prev = <<>>
  /\ kind = "init"
  /\ pos = 0
  /\ contrib = <<>>
  /\ open = FALSE
  /\ steps = 0

StarTexts == StringsUpTo({"*", "a"}, MaxStars)
IndexTexts == NumericKeys \cup {<<>>, <<"x">>, <<"1", "1">>, <<"9", "9">>}

InitCount ==
  /\ TypeIdle
  /\ RouterIdle
  /\ \/ \E t \in StarTexts :
          cw = [fn |-> "CountWildcards", input |-> t, start |-> <<"0">>,
                result |-> <<>>, pc |-> "call"]
     \/ \E t \in IndexTexts :
          cw = [fn |-> "IncrementWildcard", input |-> t, start |-> <<>>,
                result |-> <<>>, pc |-> "call"]
  /\ ValidateIdle

ApplyCountWildcards ==
  /\ cw.pc = "call"
  /\ cw.fn = "CountWildcards"
  /\ cw' = [cw EXCEPT !.result = CountWildcards(cw.input, cw.start),
                      !.pc = "done"]
  /\ UNCHANGED <<typeVars, routerVars, validateVars>>

ApplyIncrementWildcard ==
  /\ cw.pc = "call"
  /\ cw.fn = "IncrementWildcard"
  /\ cw' = [cw EXCEPT !.result = IncrementWildcard(cw.input), !.pc = "done"]
  /\ UNCHANGED <<typeVars, routerVars, validateVars>>

NextCount ==
  \/ ApplyCountWildcards
  \/ ApplyIncrementWildcard

SpecCount == InitCount /\ [][NextCount]_vars

(***************************************************************************)
(* C17: CountWildcards applied to a text with n stars, starting from "0",  *)
(* returns the decimal numeral of n for n <= 9 and "10" for every n >= 10; *)
(* IncrementWildcard maps "0".."8" to the successor and every other input, *)
(* "9" and "10" included, to "10".                                         *)
(***************************************************************************)
Sentinel == <<"1", "0">>

C17_CountAndIncrement ==
  /\ (cw.pc = "done" /\ cw.fn = "CountWildcards") =>
       LET n == Occurrences(cw.input, "*")
       IN  cw.result = IF n <= 9 THEN <<Digits[n + 1]>> ELSE Sentinel
  /\ (cw.pc = "done" /\ cw.fn = "IncrementWildcard") =>
       IF \E k \in 0..8 : cw.input = <<Digits[k + 1]>>
       THEN \E k \in 0..8 : /\ cw.input = <<Digits[k + 1]>>
                            /\ cw.result = <<Digits[k + 2]>>
       ELSE cw.result = Sentinel

W_C17_CountAndIncrement ==
  /\ cw.pc = "done"
  /\ cw.fn = "CountWildcards"
  /\ Occurrences(cw.input, "*") = 11
  /\ cw.result = Sentinel

(***************************************************************************)
(* The runtime TypedRouter: one wrapper object around one underlying       *)
(* router, whose layer stack the registration calls fill and a request     *)
(* walks.  calls is the history of the registration calls, kept to state   *)
(* the properties; returned is the identity of the object the last call    *)
(* returned.                                                               *)
(***************************************************************************)
Self == 1
\* the underlying express.Router, as getRouter hands it out
ExpressRouter == 2

RouterMiddlewares == {"m1", "m2"}
Methods == {"get", "all"}
Paths == {"/a"}
RequestMethods == {"get", "post"}

\* the second argument of a route method: a handler, or an options object
\* followed by the handler
RouteForms ==
  {[options |-> FALSE, middleware |-> <<>>, bodySchema |-> FALSE,
    querySchema |-> FALSE]}
  \cup [options : {TRUE}, middleware : {<<>>, <<"r1", "r2">>},
        bodySchema : BOOLEAN, querySchema : BOOLEAN]

NoForm == [options |-> FALSE, middleware |-> <<>>, bodySchema |-> FALSE,
           querySchema |-> FALSE]

MiddlewareLayer(m) ==
  [type |-> "mw", id |-> m, method |-> "none", path |-> "none", chain |-> <<>>]

\* a layer whose function takes (err, req, res, next)
ErrorLayer(h) ==
  [type |-> "error", id |-> h, method |-> "none", path |-> "none",
   chain |-> <<>>]

RouteLayer(method, p, chain) ==
  [type |-> "route", id |-> "none", method |-> method, path |-> p,
   chain |-> chain]

\* variant that puts the validation middleware before the per-route ones
RouteChain_ValidationFirst(form) ==
  IF form.options
  THEN (IF form.bodySchema THEN <<"validateBody">> ELSE <<>>)
       \o (IF form.querySchema THEN <<"validateQuery">> ELSE <<>>)
       \o form.middleware
       \o <<"handler">>
  ELSE <<"handler">>

\* the array registerRoute hands to the underlying router
RouteChain(form) ==
  IF form.options
  THEN form.middleware
       \o (IF form.bodySchema THEN <<"validateBody">> ELSE <<>>)
       \o (IF form.querySchema THEN <<"validateQuery">> ELSE <<>>)
       \o <<"handler">>
  ELSE <<"handler">>

UseCall(m, via) ==
  [op |-> "useMiddleware", via |-> via, mw |-> m, method |-> "none",
   path |-> "none", form |-> NoForm]

ConfigCall ==
  [op |-> "errorHandler", via |-> "factory", mw |-> "errorHandler",
   method |-> "none", path |-> "none", form |-> NoForm]

RouteCall(method, p, form) ==
  [op |-> "route", via |-> "call", mw |-> "none", method |-> method,
   path |-> p, form |-> form]

InitRouter ==
  /\ TypeIdle
  /\ CountIdle
  /\ stack = <<>>
  /\ returned = 0
  /\ calls = <<>>
  /\ ran = NoRun
  /\ rpc = "new"
  /\ ValidateIdle

CreateTypedRouter ==
  /\ rpc = "new"
  /\ rpc' = "ready"
  /\ stack' = <<>>
  /\ calls' = <<>>
  /\ returned' = Self
  /\ UNCHANGED <<ran, typeVars, countVars, validateVars>>

\* router.getRouter().use(config.errorHandler), when an errorHandler is given
CreateTypedRouterWithConfig ==
  /\ rpc = "new"
  /\ \E errorHandler \in BOOLEAN :
       /\ stack' = IF errorHandler THEN <<ErrorLayer("errorHandler")>>
                   ELSE <<>>
       /\ calls' = IF errorHandler THEN <<ConfigCall>> ELSE <<>>
  /\ rpc' = "ready"
  /\ returned' = Self
  /\ UNCHANGED <<ran, typeVars, countVars, validateVars>>

\* getRouter(): the underlying router, to be mounted on an application
GetRouter ==
  /\ rpc = "ready"
  /\ returned' = ExpressRouter
  /\ UNCHANGED <<stack, calls, ran, rpc, typeVars, countVars, validateVars>>

\* variant after the documentation: a new instance is returned and the
\* router it was called on is left without the middleware
UseMiddleware_NewInstance ==
  /\ rpc = "ready"
  /\ Len(stack) < MaxLayers
  /\ \E m \in RouterMiddlewares :
       /\ stack' = stack
       /\ calls' = Append(calls, UseCall(m, "call"))
  /\ returned' = Self + 1
  /\ UNCHANGED <<ran, rpc, typeVars, countVars, validateVars>>

UseMiddleware ==
  /\ rpc = "ready"
  /\ Len(stack) < MaxLayers
  /\ \E m \in RouterMiddlewares :
       /\ stack' = Append(stack, MiddlewareLayer(m))
       /\ calls' = Append(calls, UseCall(m, "call"))
  /\ returned' = Self
  /\ UNCHANGED <<ran, rpc, typeVars, countVars, validateVars>>

\* the loop of createTypedRouterWithMiddleware: useMiddleware for each
\* argument in turn, on the router each call returned (always the same one)
CreateTypedRouterWithMiddleware ==
  /\ rpc = "new"
  /\ \E mws \in StringsUpTo(RouterMiddlewares, MaxLayers - 1) :
       /\ stack' = [i \in 1..Len(mws) |-> MiddlewareLayer(mws[i])]
       /\ calls' = [i \in 1..Len(mws) |-> UseCall(mws[i], "factory")]
  /\ rpc' = "ready"
  /\ returned' = Self
  /\ UNCHANGED <<ran, typeVars, countVars, validateVars>>

\* variant that registers every element of the chain as a layer of its own
RegisterRoute_LayerPerHandler ==
  /\ rpc = "ready"
  /\ Len(stack) < MaxLayers
  /\ \E method \in Methods, p \in Paths, form \in RouteForms :
       /\ stack' = stack \o [j \in 1..Len(RouteChain(form)) |->
                               RouteLayer(method, p, <<RouteChain(form)[j]>>)]
       /\ calls' = Append(calls, RouteCall(method, p, form))
  /\ returned' = Self
  /\ UNCHANGED <<ran, rpc, typeVars, countVars, validateVars>>

RegisterRoute ==
  /\ rpc = "ready"
  /\ Len(stack) < MaxLayers
  /\ \E method \in Methods, p \in Paths, form \in RouteForms :
       /\ stack' = Append(stack, RouteLayer(method, p, RouteChain(form)))
       /\ calls' = Append(calls, RouteCall(method, p, form))
  /\ returned' = Self
  /\ UNCHANGED <<ran, rpc, typeVars, countVars, validateVars>>

Matches(layer, method, p) ==
  /\ layer.path = p
  /\ layer.method \in {"all", method}

\* the elements of a chain that run when the element named failing calls
\* next(error): those up to and including it
RanOf(chain, failing) ==
  IF \E j \in DOMAIN chain : chain[j] = failing
  THEN SubSeq(chain, 1, Min({j \in DOMAIN chain : chain[j] = failing}))
  ELSE chain

\* an error goes to the error-handling layers after the layer that raised
\* it, past every other layer
RECURSIVE WalkError(_, _)
WalkError(st, i) ==
  IF i > Len(st) THEN <<>>
  ELSE IF st[i].type = "error"
  THEN <<[level |-> "error", id |-> st[i].id, layer |-> i]>>
  ELSE WalkError(st, i + 1)

\* a request walks the stack in order: a middleware layer runs and passes
\* the request on, an error-handling layer is passed by, the first route
\* that matches runs its chain, whose handler answers; the element named
\* failing, when it runs, calls next(error) instead
RECURSIVE Walk(_, _, _, _, _)
Walk(st, method, p, failing, i) ==
  IF i > Len(st) THEN <<>>
  ELSE IF st[i].type = "mw"
  THEN <<[level |-> "router", id |-> st[i].id, layer |-> i]>>
       \o (IF st[i].id = failing THEN WalkError(st, i + 1)
           ELSE Walk(st, method, p, failing, i + 1))
  ELSE IF st[i].type = "route" /\ Matches(st[i], method, p)
  THEN LET ch == RanOf(st[i].chain, failing)
       IN  [j \in 1..Len(ch) |->
              [level |-> "route", id |-> ch[j], layer |-> i]]
           \o (IF ch # <<>> /\ ch[Len(ch)] = failing
               THEN WalkError(st, i + 1) ELSE <<>>)
  ELSE Walk(st, method, p, failing, i + 1)

\* who calls next(error) in a request: nobody, the route handler, or the
\* body-validation middleware (a schema that throws)
Failing == {"none", "handler", "validateBody"}

Dispatch ==
  /\ rpc = "ready"
  /\ returned = ExpressRouter
  /\ \E method \in RequestMethods, p \in Paths, failing \in Failing :
       ran' = [method |-> method, path |-> p, failing |-> failing,
               trace |-> Walk(stack, method, p, failing, 1)]
  /\ rpc' = "dispatched"
  /\ UNCHANGED <<stack, calls, returned, typeVars, countVars, validateVars>>

NextRouter ==
  \/ CreateTypedRouter
  \/ CreateTypedRouterWithConfig
  \/ CreateTypedRouterWithMiddleware
  \/ GetRouter
  \/ UseMiddleware
  \/ RegisterRoute
  \/ Dispatch

SpecRouter == InitRouter /\ [][NextRouter]_vars

\* what a dispatched request ran, split by level
Ids(tr) == [i \in 1..Len(tr) |-> tr[i].id]
IsRouterLevel(e) == e.level = "router"
IsRouteLevel(e) == e.level = "route"
RouterPart == SelectSeq(ran.trace, IsRouterLevel)
RoutePart == SelectSeq(ran.trace, IsRouteLevel)

\* the registration calls of routes the dispatched request matches
MatchingCalls ==
  {i \in DOMAIN calls :
     calls[i].op = "route" /\ Matches(calls[i], ran.method, ran.path)}

IsUse(c) == c.op = "useMiddleware"
UsedBefore(k) == SelectSeq(SubSeq(calls, 1, k - 1), IsUse)
Mws(cs) == [i \in 1..Len(cs) |-> cs[i].mw]

(***************************************************************************)
(* C19: useMiddleware(m) returns a new router instance and leaves the      *)
(* router it was called on without m: a route registered afterwards on     *)
(* that router is not preceded by m when a request is dispatched.          *)
(***************************************************************************)
CalledOnly == \A i \in DOMAIN calls : calls[i].via = "call"

C19_UseMiddlewareLeavesRouter ==
  /\ (rpc = "ready" /\ calls # <<>> /\ calls[Len(calls)].op = "useMiddleware"
        /\ calls[Len(calls)].via = "call") => returned # Self
  /\ (rpc = "dispatched" /\ CalledOnly /\ MatchingCalls # {}) =>
       RouterPart = <<>>

IsProperSuffix(s, t) ==
  /\ Len(s) < Len(t)
  /\ SubSeq(t, Len(t) - Len(s) + 1, Len(t)) = s

C27_ProperSuffix ==
  kind \in {"brace", "named", "wildcard"} => IsProperSuffix(path, prev)

(***************************************************************************)
(* C30: in a pattern without braces and without a colon, a star            *)
(* immediately followed by a non-empty name contributes { name: string[] } *)
(* and no numeric key; the name ends at the first following delimiter      *)
(* among / - . # or at the end of the pattern, and scanning resumes at     *)
(* that delimiter.                                                         *)
(***************************************************************************)
NameEnders == {"/", "-", ".", "#"}

\* the text up to the first delimiter, and the text from it on
UpToDelimiter(R) ==
  IF \E i \in DOMAIN R : R[i] \in NameEnders
  THEN SubSeq(R, 1, Min({i \in DOMAIN R : R[i] \in NameEnders}) - 1)
  ELSE R

FromDelimiter(R) == SubSeq(R, Len(UpToDelimiter(R)) + 1, Len(R))

C30_NamedWildcard ==
  LET R == After(prev, <<"*">>)
  IN  ( /\ kind = "wildcard"
        /\ ":" \notin Range(pattern)
        /\ ~HasBrace(pattern)
        /\ UpToDelimiter(R) # <<>>
        /\ Range(UpToDelimiter(R)) \subseteq Letters ) =>
        /\ contrib = Multi(UpToDelimiter(R))
        /\ path = FromDelimiter(R)
        /\ Keys(contrib) \cap NumericKeys = {}

(***************************************************************************)
(* The validation middleware of a route with a bodySchema or querySchema:  *)
(* one invocation, for every schema shape safeParseSchema looks for and    *)
(* every way the schema can answer.                                        *)
(***************************************************************************)
Shapes == {"standard", "safeParse", "parse", "validate", "unsupported"}

\* what the schema does with the data it is given: accept it, report it
\* invalid the way its shape reports that, throw an error that carries an
\* issues array, or throw any other error
Outcomes == {"ok", "invalid", "invalidThrown", "crash"}

ValidationCases ==
  { c \in [which : {"body", "query"}, shape : Shapes, outcome : Outcomes,
           async : BOOLEAN] :
      /\ c.shape = "parse" => ~c.async /\ c.outcome # "invalidThrown"
      /\ c.shape = "unsupported" => ~c.async /\ c.outcome = "ok" }

\* the schema's own function throws (or, when asynchronous, rejects);
\* parse has no other way to report invalid data
SchemaThrows(shape, outcome) ==
  \/ outcome \in {"invalidThrown", "crash"}
  \/ shape = "parse" /\ outcome = "invalid"

ThrownError(outcome) == IF outcome = "crash" THEN "Error" ELSE "SchemaError"

\* what the schema's own function returns when it does not throw
SchemaReturns(shape, outcome) ==
  IF shape = "standard"
  THEN IF outcome = "ok" THEN JsObject({"value"}, "parsed")
       ELSE JsObject({"issues"}, "issues")
  ELSE IF shape = "safeParse"
  THEN IF outcome = "ok" THEN JsObject({"success", "data"}, "parsed")
       ELSE JsObject({"success", "error"}, "issues")
  ELSE IF shape = "validate"
  THEN IF outcome = "ok" THEN JsObject({"value"}, "parsed")
       ELSE JsObject({"error", "value"}, "issues")
  ELSE Plain("parsed")

Issues == JsObject({"issues"}, "issues")

\* the mapping of a validate() result
FromValidate(r) ==
  IF "error" \in r.has THEN Issues
  ELSE IF "issues" \in r.has THEN Issues
  ELSE JsObject({"value"}, r.payload)

Returned(v, thenable, rejected, error) ==
  [kind |-> "return", value |-> v, thenable |-> thenable,
   rejected |-> rejected, error |-> error]

Thrown(error) ==
  [kind |-> "throw", value |-> Undefined, thenable |-> FALSE,
   rejected |-> FALSE, error |-> error]

safeParseSchema(shape, outcome, async) ==
  LET throws == SchemaThrows(shape, outcome)
      err == ThrownError(outcome)
      r == SchemaReturns(shape, outcome)
      v == IF shape = "validate" THEN FromValidate(r) ELSE r
  IN  IF shape \in {"standard", "safeParse", "validate"}
      THEN IF async
           THEN IF throws THEN Returned(Undefined, TRUE, TRUE, err)
                ELSE Returned(v, TRUE, FALSE, "none")
           ELSE IF throws THEN Thrown(err)
                ELSE Returned(v, FALSE, FALSE, "none")
      ELSE IF shape = "parse"
      THEN IF throws THEN Returned(Issues, FALSE, FALSE, "none")
           ELSE Returned(JsObject({"value"}, r.payload), FALSE, FALSE, "none")
      ELSE Returned(Issues, FALSE, FALSE, "none")

isSchemaError(error) == error = "SchemaError"

InitValidate ==
  /\ TypeIdle
  /\ CountIdle
  /\ RouterIdle
  /\ \E c \in ValidationCases :
       vm = [NoInvocation EXCEPT !.which = c.which, !.shape = c.shape,
                                 !.outcome = c.outcome, !.async = c.async,
                                 !.pc = "start"]

\* try { const result = safeParseSchema(schema, req.body) ...
ValidationCall ==
  /\ vm.pc = "start"
  /\ LET r == safeParseSchema(vm.shape, vm.outcome, vm.async)
     IN  vm' = IF r.kind = "throw"
               THEN [vm EXCEPT !.pc = "catch", !.error = r.error]
               ELSE [vm EXCEPT !.pc = IF r.thenable THEN "awaiting"
                                      ELSE "resolved",
                               !.result = r.value,
                               !.thenable = r.thenable,
                               !.rejected = r.rejected,
                               !.error = r.error]
  /\ UNCHANGED <<typeVars, countVars, routerVars>>

\* ... await result ...
ValidationAwait ==
  /\ vm.pc = "awaiting"
  /\ vm' = IF vm.rejected
           THEN [vm EXCEPT !.pc = "catch"]
           ELSE [vm EXCEPT !.pc = "resolved"]
  /\ UNCHANGED <<typeVars, countVars, routerVars>>

\* variant without the return after the 400 response
ValidationResolved_NoReturn ==
  /\ vm.pc = "resolved"
  /\ LET r == vm.result
         v == IF "value" \in r.has THEN Plain(r.payload) ELSE r
         answered == IF "issues" \in r.has
                     THEN [vm EXCEPT !.status = 400,
                                     !.sent = "Validation failed"]
                     ELSE vm
     IN  vm' = IF vm.which = "body"
               THEN [answered EXCEPT !.pc = "end", !.body = v,
                                     !.nexts = Append(@, "()")]
               ELSE [answered EXCEPT !.pc = "end", !.query = v,
                                     !.queryWritable = FALSE,
                                     !.nexts = Append(@, "()")]
  /\ UNCHANGED <<typeVars, countVars, routerVars>>

\* ... if (resolved.issues) { 400; return } req.body = value; next() }
ValidationResolved ==
  /\ vm.pc = "resolved"
  /\ LET r == vm.result
         v == IF "value" \in r.has THEN Plain(r.payload) ELSE r
     IN  vm' = IF "issues" \in r.has
               THEN [vm EXCEPT !.pc = "end", !.status = 400,
                               !.sent = "Validation failed"]
               ELSE IF vm.which = "body"
               THEN [vm EXCEPT !.pc = "end", !.body = v,
                               !.nexts = Append(@, "()")]
               ELSE [vm EXCEPT !.pc = "end", !.query = v,
                               !.queryWritable = FALSE,
                               !.nexts = Append(@, "()")]
  /\ UNCHANGED <<typeVars, countVars, routerVars>>

\* catch (error) { isSchemaError(error) ? 400 : next(error) }
ValidationCatch ==
  /\ vm.pc = "catch"
  /\ vm' = IF isSchemaError(vm.error)
           THEN [vm EXCEPT !.pc = "end", !.status = 400,
                           !.sent = "Validation failed"]
           ELSE [vm EXCEPT !.pc = "end", !.nexts = Append(@, vm.error)]
  /\ UNCHANGED <<typeVars, countVars, routerVars>>

NextValidate ==
  \/ ValidationCall
  \/ ValidationAwait
  \/ ValidationResolved
  \/ ValidationCatch

SpecValidate == InitValidate /\ [][NextValidate]_vars

\* the schema rejected the data; the middleware has finished
Rejects == vm.outcome \in {"invalid", "invalidThrown"}
Ended == vm.pc = "end"
Answered400 == vm.status = 400 /\ vm.sent = "Validation failed"

(***************************************************************************)
(* C21: whenever the schema rejects the body (resp. the query), the        *)
(* validation middleware sends status 400 with error "Validation failed"   *)
(* and does not call next, so nothing later in the route's chain runs.     *)
(***************************************************************************)
C21_RejectedAnswers400 ==
  (Ended /\ Rejects) => Answered400 /\ vm.nexts = <<>>

(***************************************************************************)
(* C24: every invocation of a validation middleware ends with exactly one  *)
(* of: next() called once with no argument, a 400 response sent, or        *)
(* next(error) called once; never a response and a call of next, never two *)
(* calls of next.                                                          *)
(***************************************************************************)
C24_OneOutcome ==
  /\ Len(vm.nexts) <= 1
  /\ ~(vm.status # 0 /\ vm.nexts # <<>>)
  /\ Ended =>
       \/ vm.nexts = <<"()">> /\ vm.status = 0
       \/ vm.nexts = <<>> /\ Answered400
       \/ vm.nexts = <<vm.error>> /\ vm.error # "none" /\ vm.status = 0
  /\ ~Ended => vm.nexts = <<>> /\ vm.status = 0

W_C24_OneOutcome ==
  /\ Ended
  /\ vm.shape = "standard"
  /\ vm.outcome = "invalid"
  /\ Answered400
  /\ vm.nexts = <<>>

(***************************************************************************)
(* C25: when validation succeeds req.body is replaced by the schema's      *)
(* output value (resp. req.query is redefined as a non-writable property   *)
(* holding the validated query) before next() is called; when validation   *)
(* fails or throws, req.body and req.query are left unchanged.             *)
(***************************************************************************)
C25_ParsedValueOnly ==
  /\ (Ended /\ vm.outcome = "ok" /\ vm.shape # "unsupported") =>
       /\ vm.nexts = <<"()">>
       /\ IF vm.which = "body"
          THEN vm.body = Plain("parsed") /\ vm.query = Raw
          ELSE /\ vm.query = Plain("parsed") /\ ~vm.queryWritable
               /\ vm.body = Raw
  /\ vm.outcome # "ok" =>
       vm.body = Raw /\ vm.query = Raw /\ vm.queryWritable

(***************************************************************************)
(* C26: an exception raised during validation that is not a schema error   *)
(* (no array-valued issues) is forwarded unchanged by next(error) and no   *)
(* response is written; a schema validation failure is never forwarded to  *)
(* next(error).                                                            *)
(***************************************************************************)
C26_OnlyCrashesForwarded ==
  /\ (Ended /\ vm.outcome = "crash") =>
       vm.nexts = <<"Error">> /\ vm.status = 0
  /\ (Ended /\ Rejects) => vm.nexts \in {<<>>, <<"()">>}

(***************************************************************************)
(* C28: for every schema shape safeParseSchema accepts, a failed           *)
(* validation is returned as an object with a truthy issues field and a    *)
(* successful one as an object with a value field, so the middleware       *)
(* answers 400 for every failed validation and passes on only the          *)
(* validated value.                                                        *)
(***************************************************************************)
C28_IssuesOrValue ==
  (vm.shape \in {"standard", "safeParse", "parse", "validate"}
     /\ vm.pc \in {"resolved", "end"}) =>
    /\ vm.outcome = "invalid" =>
         /\ "issues" \in vm.result.has
         /\ Ended => Answered400
    /\ vm.outcome = "ok" =>
         /\ "value" \in vm.result.has
         /\ Ended => (IF vm.which = "body" THEN vm.body ELSE vm.query)
                       = Plain("parsed")

(***************************************************************************)
(* C22: on a router created by createTypedRouterWithConfig with an         *)
(* errorHandler, an error forwarded with next(error) by a route registered *)
(* afterwards, or by its middleware, is delivered to the errorHandler.     *)
(***************************************************************************)
HasErrorHandler == calls # <<>> /\ calls[1].op = "errorHandler"

\* the request ran the element that calls next(error)
Raised == \E i \in DOMAIN ran.trace : ran.trace[i].id = ran.failing

Delivered == \E i \in DOMAIN ran.trace : ran.trace[i].level = "error"

C22_ErrorsReachErrorHandler ==
  (rpc = "dispatched" /\ HasErrorHandler /\ Raised) => Delivered

(***************************************************************************)
(* C23: for a route registered with an options object the chain handed to  *)
(* the underlying router is the per-route middleware in array order, then  *)
(* the body validation if bodySchema is set, then the query validation if  *)
(* querySchema is set, then the route handler last; registered with a      *)
(* function, the chain is exactly that handler.                            *)
(***************************************************************************)
C23_ChainOrder ==
  \A i \in DOMAIN calls :
    calls[i].op = "route" =>
      LET f == calls[i].form
          ch == stack[i].chain
          n == Len(f.middleware)
          b == IF f.bodySchema THEN 1 ELSE 0
          q == IF f.querySchema THEN 1 ELSE 0
      IN  /\ i <= Len(stack) /\ stack[i].type = "route"
          /\ IF f.options
             THEN /\ Len(ch) = n + b + q + 1
                  /\ SubSeq(ch, 1, n) = f.middleware
                  /\ f.bodySchema => ch[n + 1] = "validateBody"
                  /\ f.querySchema => ch[n + b + 1] = "validateQuery"
                  /\ ch[Len(ch)] = "handler"
             ELSE ch = <<"handler">>

W_C23_ChainOrder ==
  /\ calls # <<>>
  /\ calls[Len(calls)].op = "route"
  /\ calls[Len(calls)].form.options
  /\ stack[Len(stack)].chain =
       <<"r1", "r2", "validateBody", "validateQuery", "handler">>

(***************************************************************************)
(* C29: the layer stack of the wrapped router is append-only: every        *)
(* useMiddleware call and every route registration appends exactly one     *)
(* entry after the existing ones, nothing removes or reorders entries, and *)
(* getRouter leaves the stack unchanged.                                   *)
(***************************************************************************)
IsPrefix(s, t) == Len(s) <= Len(t) /\ SubSeq(t, 1, Len(s)) = s

AppendOnlyStep ==
  /\ IsPrefix(stack, stack')
  /\ (rpc = "ready" /\ calls' # calls) => Len(stack') = Len(stack) + 1
  /\ (rpc = "ready" /\ calls' = calls) => stack' = stack
  /\ Len(stack') = Len(calls')

====
